---- MODULE Spec2Model ----
(***************************************************************************)
(* Model of the PBS cluster utilisation scripts clusterstats.py (queue     *)
(* based GPU detection) and rescheck.py (name based GPU detection).        *)
(*                                                                         *)
(* Python strings are TLA+ strings; they are taken apart with Len, SubSeq  *)
(* and \o exactly as the Python string methods take them apart.            *)
(* Memory amounts, which the scripts hold as float megabytes, are held as  *)
(* integers in units of 1/MB_BYTES megabyte (bytes): for the integral      *)
(* magnitudes of the inventories below this is exact, as the float         *)
(* arithmetic of the scripts is on the same values.                        *)
(***************************************************************************)
EXTENDS Integers, Sequences, FiniteSets, TLC

VARIABLES variant, nodes, idx, pc, stats, include, reason, node_type,
          invocations, stdout, exit_status, call, result

\* the process: how often pbsnodes was started, the lines printed, the exit
\* status once the process has ended
process_vars == <<invocations, stdout, exit_status>>

\* one function of the scripts called on its own: the call and what it gave
call_vars == <<call, result>>

vars == <<variant, nodes, idx, pc, stats, include, reason, node_type,
          invocations, stdout, exit_status, call, result>>

(***************************************************************************)
(* Python string primitives                                                *)
(***************************************************************************)

LOWERCASE == "abcdefghijklmnopqrstuvwxyz"
UPPERCASE == "ABCDEFGHIJKLMNOPQRSTUVWXYZ"
DIGITS == "0123456789"

\* s[i] as a one character string (1-based)
CharAt(s, i) == SubSeq(s, i, i)

\* position of the one character string c in the string abc, 0 when absent
IndexIn(abc, c) ==
    IF \E i \in 1..Len(abc) : CharAt(abc, i) = c
    THEN CHOOSE i \in 1..Len(abc) : CharAt(abc, i) = c
    ELSE 0

\* the upper case of each lower case letter, and the reverse
UpperOf == [c \in {CharAt(LOWERCASE, i) : i \in 1..Len(LOWERCASE)} |->
               CharAt(UPPERCASE, IndexIn(LOWERCASE, c))]

LowerOf == [c \in {CharAt(UPPERCASE, i) : i \in 1..Len(UPPERCASE)} |->
               CharAt(LOWERCASE, IndexIn(UPPERCASE, c))]

\* str.upper()
RECURSIVE str_upper(_)
str_upper(s) ==
    IF s = "" THEN ""
    ELSE (IF CharAt(s, 1) \in DOMAIN UpperOf THEN UpperOf[CharAt(s, 1)] ELSE CharAt(s, 1))
         \o str_upper(SubSeq(s, 2, Len(s)))

\* str.lower()
RECURSIVE str_lower(_)
str_lower(s) ==
    IF s = "" THEN ""
    ELSE (IF CharAt(s, 1) \in DOMAIN LowerOf THEN LowerOf[CharAt(s, 1)] ELSE CharAt(s, 1))
         \o str_lower(SubSeq(s, 2, Len(s)))

\* sub in s
str_contains(s, sub) ==
    \E i \in 1..(Len(s) - Len(sub) + 1) : SubSeq(s, i, i + Len(sub) - 1) = sub

\* s.endswith(suf)
str_endswith(s, suf) ==
    /\ Len(s) >= Len(suf)
    /\ SubSeq(s, Len(s) - Len(suf) + 1, Len(s)) = suf

\* s.startswith(pre)
str_startswith(s, pre) ==
    /\ Len(s) >= Len(pre)
    /\ SubSeq(s, 1, Len(pre)) = pre

IsSpace(c) == c \in {" ", "\t", "\n", "\r"}

RECURSIVE str_lstrip(_)
str_lstrip(s) ==
    IF s # "" /\ IsSpace(CharAt(s, 1))
    THEN str_lstrip(SubSeq(s, 2, Len(s)))
    ELSE s

RECURSIVE str_rstrip(_)
str_rstrip(s) ==
    IF s # "" /\ IsSpace(CharAt(s, Len(s)))
    THEN str_rstrip(SubSeq(s, 1, Len(s) - 1))
    ELSE s

\* s.strip()
str_strip(s) == str_rstrip(str_lstrip(s))

\* s.split(sep) for a one character separator: the list of the fields
RECURSIVE str_split(_, _)
str_split(s, sep) ==
    LET k == IndexIn(s, sep)
    IN IF k = 0 THEN <<s>>
       ELSE <<SubSeq(s, 1, k - 1)>> \o str_split(SubSeq(s, k + 1, Len(s)), sep)

\* s[:-n]
str_drop_last(s, n) == SubSeq(s, 1, Len(s) - n)

\* the value of each decimal digit
DigitOf == [c \in {CharAt(DIGITS, i) : i \in 1..Len(DIGITS)} |-> IndexIn(DIGITS, c) - 1]

\* the text of a decimal number: digits, single underscores between them
IsDigits(s) ==
    /\ s # ""
    /\ \A i \in 1..Len(s) : CharAt(s, i) \in DOMAIN DigitOf \/ CharAt(s, i) = "_"
    /\ CharAt(s, 1) # "_" /\ CharAt(s, Len(s)) # "_"
    /\ ~str_contains(s, "__")

RECURSIVE DigitsValue(_)
DigitsValue(s) ==
    IF s = "" THEN 0
    ELSE IF CharAt(s, Len(s)) = "_" THEN DigitsValue(SubSeq(s, 1, Len(s) - 1))
    ELSE 10 * DigitsValue(SubSeq(s, 1, Len(s) - 1)) + DigitOf[CharAt(s, Len(s))]

\* how many digits the text has
RECURSIVE DigitCount(_)
DigitCount(s) ==
    IF s = "" THEN 0
    ELSE DigitCount(SubSeq(s, 2, Len(s))) + (IF CharAt(s, 1) = "_" THEN 0 ELSE 1)

RECURSIVE PowerOfTen(_)
PowerOfTen(n) == IF n = 0 THEN 1 ELSE 10 * PowerOfTen(n - 1)

\* A numeric literal without its surrounding whitespace and its sign
LiteralBody(s) ==
    LET t == str_strip(s)
    IN IF t # "" /\ CharAt(t, 1) \in {"+", "-"} THEN SubSeq(t, 2, Len(t)) ELSE t

\* int(s) succeeds: surrounding whitespace, an optional sign, decimal digits.
\* Anything else raises ValueError.
IsIntLiteral(s) == IsDigits(LiteralBody(s))

IntLiteralValue(s) ==
    LET t == str_strip(s)
        v == DigitsValue(LiteralBody(s))
    IN IF CharAt(t, 1) = "-" THEN 0 - v ELSE v

\* the digits before and after the decimal point of a literal body
IntegerPart(body) ==
    IF IndexIn(body, ".") = 0 THEN body ELSE SubSeq(body, 1, IndexIn(body, ".") - 1)

FractionPart(body) ==
    IF IndexIn(body, ".") = 0 THEN "" ELSE SubSeq(body, IndexIn(body, ".") + 1, Len(body))

\* float(s) succeeds, for the literals written without an exponent:
\* surrounding whitespace, an optional sign, digits with an optional decimal
\* point.  (The texts of the model carry no exponent and no inf or nan.)
IsFloatLiteral(s) ==
    LET body == LiteralBody(s)
        ip == IntegerPart(body)
        fp == FractionPart(body)
    IN /\ ip = "" \/ IsDigits(ip)
       /\ fp = "" \/ IsDigits(fp)
       /\ ip # "" \/ fp # ""

\* float(s) * scale, for a scale and a product that are whole numbers
FloatLiteralTimes(s, scale) ==
    LET t == str_strip(s)
        body == LiteralBody(s)
        fp == FractionPart(body)
        v == ((DigitsValue(IntegerPart(body)) * PowerOfTen(DigitCount(fp)) + DigitsValue(fp))
                 * scale) \div PowerOfTen(DigitCount(fp))
    IN IF CharAt(t, 1) = "-" THEN 0 - v ELSE v

(***************************************************************************)
(* Numeric normaliser                                                      *)
(***************************************************************************)

\* 1024 * 1024: the model holds a memory amount of v MB as v * MB_BYTES
MB_BYTES == 1048576

Returned(v) == [raised |-> FALSE, value |-> v]
Raised == [raised |-> TRUE, value |-> 0]

\* float(text) * scale_num / scale_den megabytes, or the ValueError of float()
FloatScaled(text, scale_num, scale_den) ==
    IF IsFloatLiteral(text)
    THEN Returned(FloatLiteralTimes(text, scale_num \div scale_den))
    ELSE Raised

\* clusterstats.py parse_memory_value
parse_memory_value(mem_str) ==
    IF mem_str = "" \/ mem_str = "<various>" THEN Returned(0)
    ELSE LET m == str_lower(str_strip(mem_str))
         IN IF str_endswith(m, "mb")
            THEN FloatScaled(str_drop_last(m, 2), MB_BYTES, 1)
            ELSE IF str_endswith(m, "kb")
            THEN FloatScaled(str_drop_last(m, 2), MB_BYTES, 1024)
            ELSE IF str_endswith(m, "gb")
            THEN FloatScaled(str_drop_last(m, 2), MB_BYTES * 1024, 1)
            ELSE IF str_endswith(m, "b")
            THEN FloatScaled(str_drop_last(m, 1), MB_BYTES, 1024 * 1024)
            ELSE IF IsFloatLiteral(m)
            THEN FloatScaled(m, MB_BYTES, 1024 * 1024)
            ELSE Returned(0)

\* rescheck.py parse_memory_value: no '<various>' test before the suffixes
rescheck_parse_memory_value(mem_str) ==
    IF mem_str = "" THEN Returned(0)
    ELSE LET m == str_lower(str_strip(mem_str))
         IN IF str_endswith(m, "mb")
            THEN FloatScaled(str_drop_last(m, 2), MB_BYTES, 1)
            ELSE IF str_endswith(m, "kb")
            THEN FloatScaled(str_drop_last(m, 2), MB_BYTES, 1024)
            ELSE IF str_endswith(m, "gb")
            THEN FloatScaled(str_drop_last(m, 2), MB_BYTES * 1024, 1)
            ELSE IF str_endswith(m, "b")
            THEN FloatScaled(str_drop_last(m, 1), MB_BYTES, 1024 * 1024)
            ELSE IF IsFloatLiteral(m)
            THEN FloatScaled(m, MB_BYTES, 1024 * 1024)
            ELSE Returned(0)

\* clusterstats.py safe_int_parse, with 0 returned where the default is
safe_int_parse_zero(value, default) ==
    IF value = "" \/ value = "<various>" \/ value = "various" THEN 0
    ELSE IF str_strip(value) = "" THEN 0
    ELSE IF IsIntLiteral(value) THEN IntLiteralValue(value)
    ELSE 0

\* clusterstats.py safe_int_parse
safe_int_parse(value, default) ==
    IF value = "" \/ value = "<various>" \/ value = "various" THEN default
    ELSE IF str_strip(value) = "" THEN default
    ELSE IF IsIntLiteral(value) THEN IntLiteralValue(value)
    ELSE default

\* rescheck.py safe_int_parse
rescheck_safe_int_parse(value, default) ==
    IF value = "" \/ value = "<various>" THEN default
    ELSE IF IsIntLiteral(value) THEN IntLiteralValue(value)
    ELSE default

SeqRange(q) == {q[i] : i \in 1..Len(q)}

\* count_unique_jobs keeping each entry whole, the part after the "/" too
count_unique_jobs_entries(jobs_str) ==
    IF jobs_str = "" THEN {}
    ELSE {str_strip(f) : f \in {g \in SeqRange(str_split(jobs_str, ",")) : str_strip(g) # ""}}

\* count_unique_jobs (the same text in both scripts): the set of job ids
count_unique_jobs(jobs_str) ==
    IF jobs_str = "" THEN {}
    ELSE LET fields == str_split(jobs_str, ",")
             job_entries == {str_strip(f) : f \in {g \in SeqRange(fields) : str_strip(g) # ""}}
         IN {IF str_contains(job_entry, "/")
             THEN str_split(job_entry, "/")[1]
             ELSE job_entry : job_entry \in job_entries}

(***************************************************************************)
(* Node classifier                                                         *)
(***************************************************************************)

MONITORED_QUEUES ==
    {"smallq", "mediumq", "largeq", "expressq",
     "bigmemq", "commercialq", "specialq", "benchmarkq"}

Verdict(inc, why, type) == [include |-> inc, reason |-> why, node_type |-> type]

\* {q.strip() for q in str(qlist).split(',') if q.strip()}
NodeQueues(qlist) ==
    {str_strip(q) : q \in {f \in SeqRange(str_split(qlist, ",")) : str_strip(f) # ""}}

\* 'DOWN' in state_str or 'OFFLINE' in state_str, state_str = str(state).upper()
IsDownOffline(state) ==
    LET state_str == str_upper(state)
    IN str_contains(state_str, "DOWN") \/ str_contains(state_str, "OFFLINE")

ComputeVntypes == {"compute_vnode", "gpu_vnode"}

\* clusterstats.py should_include_node, with the state test after the kind test
should_include_node_kind_first(node_name, state, qlist, vntype) ==
    IF vntype \notin ComputeVntypes
    THEN Verdict(FALSE, "not_compute_vnode", "unknown")
    ELSE IF IsDownOffline(state)
    THEN Verdict(FALSE, "down_offline", "unknown")
    ELSE IF qlist # ""
    THEN LET node_queues == NodeQueues(qlist)
         IN IF "gpuq" \in node_queues
            THEN Verdict(TRUE, "included", "gpu")
            ELSE IF MONITORED_QUEUES \cap node_queues # {}
            THEN Verdict(TRUE, "included", "compute")
            ELSE Verdict(FALSE, "no_monitored_queues", "compute")
    ELSE Verdict(TRUE, "included", "compute")

\* clusterstats.py should_include_node, with the queues looked at before the kind
should_include_node_queue_first(node_name, state, qlist, vntype) ==
    IF IsDownOffline(state)
    THEN Verdict(FALSE, "down_offline", "unknown")
    ELSE IF qlist # "" /\ "gpuq" \in NodeQueues(qlist)
    THEN Verdict(TRUE, "included", "gpu")
    ELSE IF qlist # "" /\ MONITORED_QUEUES \cap NodeQueues(qlist) # {}
    THEN Verdict(TRUE, "included", "compute")
    ELSE IF vntype \notin ComputeVntypes
    THEN Verdict(FALSE, "not_compute_vnode", "unknown")
    ELSE IF qlist # ""
    THEN Verdict(FALSE, "no_monitored_queues", "compute")
    ELSE Verdict(TRUE, "included", "compute")

\* clusterstats.py should_include_node, with the monitored queues tested before gpuq
should_include_node_monitored_first(node_name, state, qlist, vntype) ==
    IF IsDownOffline(state)
    THEN Verdict(FALSE, "down_offline", "unknown")
    ELSE IF vntype \notin ComputeVntypes
    THEN Verdict(FALSE, "not_compute_vnode", "unknown")
    ELSE IF qlist # ""
    THEN LET node_queues == NodeQueues(qlist)
         IN IF MONITORED_QUEUES \cap node_queues # {}
            THEN Verdict(TRUE, "included", "compute")
            ELSE IF "gpuq" \in node_queues
            THEN Verdict(TRUE, "included", "gpu")
            ELSE Verdict(FALSE, "no_monitored_queues", "compute")
    ELSE Verdict(TRUE, "included", "compute")

\* clusterstats.py should_include_node, asking that every queue be monitored
should_include_node_all_monitored(node_name, state, qlist, vntype) ==
    IF IsDownOffline(state)
    THEN Verdict(FALSE, "down_offline", "unknown")
    ELSE IF vntype \notin ComputeVntypes
    THEN Verdict(FALSE, "not_compute_vnode", "unknown")
    ELSE IF qlist # ""
    THEN LET node_queues == NodeQueues(qlist)
         IN IF "gpuq" \in node_queues
            THEN Verdict(TRUE, "included", "gpu")
            ELSE IF node_queues \subseteq MONITORED_QUEUES
            THEN Verdict(TRUE, "included", "compute")
            ELSE Verdict(FALSE, "no_monitored_queues", "compute")
    ELSE Verdict(TRUE, "included", "compute")

\* clusterstats.py should_include_node, the fallback leaving the pool unknown
should_include_node_unknown_pool(node_name, state, qlist, vntype) ==
    IF IsDownOffline(state)
    THEN Verdict(FALSE, "down_offline", "unknown")
    ELSE IF vntype \notin ComputeVntypes
    THEN Verdict(FALSE, "not_compute_vnode", "unknown")
    ELSE IF qlist # ""
    THEN LET node_queues == NodeQueues(qlist)
         IN IF "gpuq" \in node_queues
            THEN Verdict(TRUE, "included", "gpu")
            ELSE IF MONITORED_QUEUES \cap node_queues # {}
            THEN Verdict(TRUE, "included", "compute")
            ELSE Verdict(FALSE, "no_monitored_queues", "compute")
    ELSE Verdict(TRUE, "included", "unknown")

\* clusterstats.py should_include_node
should_include_node(node_name, state, qlist, vntype) ==
    IF IsDownOffline(state)
    THEN Verdict(FALSE, "down_offline", "unknown")
    ELSE IF vntype \notin ComputeVntypes
    THEN Verdict(FALSE, "not_compute_vnode", "unknown")
    ELSE IF qlist # ""
    THEN LET node_queues == NodeQueues(qlist)
         IN IF "gpuq" \in node_queues
            THEN Verdict(TRUE, "included", "gpu")
            ELSE IF MONITORED_QUEUES \cap node_queues # {}
            THEN Verdict(TRUE, "included", "compute")
            ELSE Verdict(FALSE, "no_monitored_queues", "compute")
    ELSE Verdict(TRUE, "included", "compute")

\* rescheck.py is_gpu_node
is_gpu_node(node_name) == str_contains(str_lower(node_name), "g")

\* rescheck.py should_include_node
rescheck_should_include_node(node_name, state, qlist, vntype) ==
    LET type == IF is_gpu_node(node_name) THEN "gpu" ELSE "compute"
    IN IF IsDownOffline(state)
       THEN Verdict(FALSE, "down_offline", type)
       ELSE IF vntype \notin ComputeVntypes
       THEN Verdict(FALSE, "not_compute_vnode", type)
       ELSE IF ~is_gpu_node(node_name) /\ qlist # ""
       THEN LET node_queues == NodeQueues(qlist)
            IN IF "interactiveq" \in node_queues
               THEN Verdict(FALSE, "interactive", type)
               ELSE IF "classq" \in node_queues
               THEN Verdict(FALSE, "class", type)
               ELSE IF "sysadminq" \in node_queues /\ MONITORED_QUEUES \cap node_queues = {}
               THEN Verdict(FALSE, "admin", type)
               ELSE IF MONITORED_QUEUES \cap node_queues = {}
               THEN Verdict(FALSE, "other_excluded", type)
               ELSE Verdict(TRUE, "included", type)
       ELSE Verdict(TRUE, "included", type)

(***************************************************************************)
(* Resource aggregator: the body of the loop of analyze_cluster            *)
(***************************************************************************)

\* node.get(key, default)
dict_get(node, key, default) == IF key \in DOMAIN node THEN node[key] ELSE default

\* safe_int_parse(node.get(key, 0)): the default 0 is falsy and comes back as 0
node_int(node, key) ==
    IF key \in DOMAIN node THEN safe_int_parse(node[key], 0) ELSE 0

rescheck_node_int(node, key) ==
    IF key \in DOMAIN node THEN rescheck_safe_int_parse(node[key], 0) ELSE 0

\* the stats dictionary analyze_cluster starts from
InitialStats ==
    [compute |-> [included_nodes |-> 0, offline_nodes |-> 0,
                  cores_available |-> 0, cores_assigned |-> 0,
                  memory_available_mb |-> 0, memory_assigned_mb |-> 0,
                  unique_jobs |-> {}],
     gpu |-> [included_nodes |-> 0, offline_nodes |-> 0,
              cpu_cores_available |-> 0, cpu_cores_assigned |-> 0,
              gpu_devices_available |-> 0, gpu_devices_assigned |-> 0,
              memory_available_mb |-> 0, memory_assigned_mb |-> 0,
              unique_jobs |-> {}],
     total_nodes |-> 0,
     excluded_counts |-> <<>>,
     excluded_nodes |-> <<>>]

\* defaultdict lookups
excluded_count(st, why) ==
    IF why \in DOMAIN st.excluded_counts THEN st.excluded_counts[why] ELSE 0

excluded_names(st, why) ==
    IF why \in DOMAIN st.excluded_nodes THEN st.excluded_nodes[why] ELSE <<>>

\* d[k] = v on a dictionary held as a function
dict_put(d, k, v) == [x \in DOMAIN d \cup {k} |-> IF x = k THEN v ELSE d[x]]

\* the loop without its count of the nodes seen
count_node_skipped(st) == st

\* stats['total_nodes'] += 1
count_node(st) == [st EXCEPT !.total_nodes = @ + 1]

\* the offline tally with every offline node put down to the compute pool
tally_offline_compute_only(st, qlist) ==
    [st EXCEPT !.compute.offline_nodes = @ + 1]

\* clusterstats.py: the offline tally, by the queues of the node
tally_offline(st, qlist) ==
    IF qlist # "" /\ "gpuq" \in NodeQueues(qlist)
    THEN [st EXCEPT !.gpu.offline_nodes = @ + 1]
    ELSE [st EXCEPT !.compute.offline_nodes = @ + 1]

\* rescheck.py: the offline tally, by the node type the name gave
rescheck_tally_offline(st, type) ==
    IF type = "gpu"
    THEN [st EXCEPT !.gpu.offline_nodes = @ + 1]
    ELSE [st EXCEPT !.compute.offline_nodes = @ + 1]

\* the exclusion ledger, counting the node without keeping its name
tally_excluded_count_only(st, why, node_name) ==
    [st EXCEPT !.excluded_counts = dict_put(@, why, excluded_count(st, why) + 1)]

\* the exclusion ledger: count and node name under the reason
tally_excluded(st, why, node_name) ==
    [st EXCEPT !.excluded_counts = dict_put(@, why, excluded_count(st, why) + 1),
               !.excluded_nodes = dict_put(@, why, Append(excluded_names(st, why), node_name))]

\* what the loop has parsed for an included node
Parsed(cpu_av, cpu_as, mem_av, mem_as, gpu_av, gpu_as, jobs) ==
    [ncpus_available |-> cpu_av, ncpus_assigned |-> cpu_as,
     mem_available |-> mem_av, mem_assigned |-> mem_as,
     ngpus_available |-> gpu_av, ngpus_assigned |-> gpu_as,
     unique_jobs |-> jobs]

\* the loop's last step, with = written for += on the core totals
add_resources_overwrite(st, type, p) ==
    IF type = "gpu"
    THEN [st EXCEPT !.gpu.included_nodes = @ + 1,
                    !.gpu.cpu_cores_available = p.ncpus_available,
                    !.gpu.cpu_cores_assigned = p.ncpus_assigned,
                    !.gpu.memory_available_mb = @ + p.mem_available,
                    !.gpu.memory_assigned_mb = @ + p.mem_assigned,
                    !.gpu.unique_jobs = @ \cup p.unique_jobs,
                    !.gpu.gpu_devices_available = @ + p.ngpus_available,
                    !.gpu.gpu_devices_assigned = @ + p.ngpus_assigned]
    ELSE [st EXCEPT !.compute.included_nodes = @ + 1,
                    !.compute.cores_available = p.ncpus_available,
                    !.compute.cores_assigned = p.ncpus_assigned,
                    !.compute.memory_available_mb = @ + p.mem_available,
                    !.compute.memory_assigned_mb = @ + p.mem_assigned,
                    !.compute.unique_jobs = @ \cup p.unique_jobs]

\* the loop's last step, with the gpu branch also adding to the compute pool
add_resources_both_pools(st, type, p) ==
    LET c == [st EXCEPT !.compute.included_nodes = @ + 1,
                        !.compute.cores_available = @ + p.ncpus_available,
                        !.compute.cores_assigned = @ + p.ncpus_assigned,
                        !.compute.memory_available_mb = @ + p.mem_available,
                        !.compute.memory_assigned_mb = @ + p.mem_assigned,
                        !.compute.unique_jobs = @ \cup p.unique_jobs]
    IN IF type = "gpu"
       THEN [c EXCEPT !.gpu.included_nodes = @ + 1,
                      !.gpu.cpu_cores_available = @ + p.ncpus_available,
                      !.gpu.cpu_cores_assigned = @ + p.ncpus_assigned,
                      !.gpu.memory_available_mb = @ + p.mem_available,
                      !.gpu.memory_assigned_mb = @ + p.mem_assigned,
                      !.gpu.unique_jobs = @ \cup p.unique_jobs,
                      !.gpu.gpu_devices_available = @ + p.ngpus_available,
                      !.gpu.gpu_devices_assigned = @ + p.ngpus_assigned]
       ELSE c

\* the loop's last step (the same text in both scripts): add the node to its pool
add_resources(st, type, p) ==
    IF type = "gpu"
    THEN [st EXCEPT !.gpu.included_nodes = @ + 1,
                    !.gpu.cpu_cores_available = @ + p.ncpus_available,
                    !.gpu.cpu_cores_assigned = @ + p.ncpus_assigned,
                    !.gpu.memory_available_mb = @ + p.mem_available,
                    !.gpu.memory_assigned_mb = @ + p.mem_assigned,
                    !.gpu.unique_jobs = @ \cup p.unique_jobs,
                    !.gpu.gpu_devices_available = @ + p.ngpus_available,
                    !.gpu.gpu_devices_assigned = @ + p.ngpus_assigned]
    ELSE [st EXCEPT !.compute.included_nodes = @ + 1,
                    !.compute.cores_available = @ + p.ncpus_available,
                    !.compute.cores_assigned = @ + p.ncpus_assigned,
                    !.compute.memory_available_mb = @ + p.mem_available,
                    !.compute.memory_assigned_mb = @ + p.mem_assigned,
                    !.compute.unique_jobs = @ \cup p.unique_jobs]

\* what one iteration leaves: the stats, the classification, whether it raised
Iteration(st, v, r) == [stats |-> st, verdict |-> v, raised |-> r]

\* clusterstats.py: one iteration of the loop of analyze_cluster
analyze_node(st, node) ==
    LET counted == count_node(st)
        node_name == node["name"]
        state == dict_get(node, "state", "unknown")
        qlist == dict_get(node, "resources_available.Qlist", "")
        vntype == dict_get(node, "resources_available.vntype", "")
        v == should_include_node(node_name, state, qlist, vntype)
        mem_available == parse_memory_value(dict_get(node, "resources_available.mem", "0"))
        mem_assigned == parse_memory_value(dict_get(node, "resources_assigned.mem", "0"))
    IN IF v.reason = "down_offline"
       THEN Iteration(tally_offline(counted, qlist), v, FALSE)
       ELSE IF ~v.include
       THEN Iteration(tally_excluded(counted, v.reason, node_name), v, FALSE)
       ELSE IF mem_available.raised \/ mem_assigned.raised
       THEN Iteration(counted, v, TRUE)
       ELSE Iteration(
              add_resources(counted, v.node_type,
                  Parsed(node_int(node, "resources_available.ncpus"),
                         node_int(node, "resources_assigned.ncpus"),
                         mem_available.value, mem_assigned.value,
                         IF v.node_type = "gpu"
                         THEN node_int(node, "resources_available.ngpus") ELSE 0,
                         IF v.node_type = "gpu"
                         THEN node_int(node, "resources_assigned.ngpus") ELSE 0,
                         count_unique_jobs(dict_get(node, "jobs", "")))),
              v, FALSE)

\* rescheck.py: one iteration of the loop of analyze_cluster
rescheck_analyze_node(st, node) ==
    LET counted == count_node(st)
        node_name == node["name"]
        state == dict_get(node, "state", "unknown")
        qlist == dict_get(node, "resources_available.Qlist", "")
        vntype == dict_get(node, "resources_available.vntype", "")
        v == rescheck_should_include_node(node_name, state, qlist, vntype)
        mem_available == rescheck_parse_memory_value(dict_get(node, "resources_available.mem", "0"))
        mem_assigned == rescheck_parse_memory_value(dict_get(node, "resources_assigned.mem", "0"))
    IN IF v.reason = "down_offline"
       THEN Iteration(rescheck_tally_offline(counted, v.node_type), v, FALSE)
       ELSE IF ~v.include
       THEN Iteration(tally_excluded(counted, v.reason, node_name), v, FALSE)
       ELSE IF mem_available.raised \/ mem_assigned.raised
       THEN Iteration(counted, v, TRUE)
       ELSE Iteration(
              add_resources(counted, v.node_type,
                  Parsed(rescheck_node_int(node, "resources_available.ncpus"),
                         rescheck_node_int(node, "resources_assigned.ncpus"),
                         mem_available.value, mem_assigned.value,
                         IF v.node_type = "gpu"
                         THEN rescheck_node_int(node, "resources_available.ngpus") ELSE 0,
                         IF v.node_type = "gpu"
                         THEN rescheck_node_int(node, "resources_assigned.ngpus") ELSE 0,
                         count_unique_jobs(dict_get(node, "jobs", "")))),
              v, FALSE)

(***************************************************************************)
(* Inventories: the node dictionaries parse_pbsnodes_output hands to the   *)
(* loop.  A key the inventory does not report is not in the dictionary.    *)
(***************************************************************************)

\* longest inventory of the mixed inventories
MaxNodes == 3

Unreported == "<unreported>"

AttributeKeys ==
    {"state", "resources_available.Qlist", "resources_available.vntype",
     "resources_available.ncpus", "resources_assigned.ncpus",
     "resources_available.mem", "resources_assigned.mem",
     "resources_available.ngpus", "resources_assigned.ngpus", "jobs"}

\* the dictionary of a node block: current_node = {'name': ...}, then one
\* entry for each reported attribute
NodeDict(name, attrs) ==
    [k \in {"name"} \cup {a \in DOMAIN attrs : attrs[a] # Unreported} |->
        IF k = "name" THEN name ELSE attrs[k]]

Attrs(state, qlist, vntype, cpu_av, cpu_as, mem_av, mem_as, gpu_av, gpu_as, jobs) ==
    [k \in AttributeKeys |->
        CASE k = "state" -> state
          [] k = "resources_available.Qlist" -> qlist
          [] k = "resources_available.vntype" -> vntype
          [] k = "resources_available.ncpus" -> cpu_av
          [] k = "resources_assigned.ncpus" -> cpu_as
          [] k = "resources_available.mem" -> mem_av
          [] k = "resources_assigned.mem" -> mem_as
          [] k = "resources_available.ngpus" -> gpu_av
          [] k = "resources_assigned.ngpus" -> gpu_as
          [] k = "jobs" -> jobs]

NodeNames == {"node01", "gpu01", "BIGMEM7"}

NodeStates ==
    {Unreported, "", "free", "job-busy", "job-exclusive", "job-busy,offline",
     "Offline", "down", "state-unknown,DOWN"}

NodeQlists ==
    {Unreported, "", ",", "gpuq", "smallq", "classq", "sysadminq", "GPUQ",
     "smallq,classq", "smallq,interactiveq", "gpuq,smallq", "largeq, gpuq",
     "sysadminq,expressq", "classq,interactiveq"}

NodeVntypes == {Unreported, "compute_vnode", "gpu_vnode", "login_vnode"}

\* every combination of name, state, queue list and kind, on one set of
\* resources
ClassifierNodes ==
    {NodeDict(n, Attrs(s, q, t, "8", "4", "1gb", "8192kb", "2", "1",
                       "41.p/0, 41.p/1, 42.p/0")) :
        n \in NodeNames, s \in NodeStates, q \in NodeQlists, t \in NodeVntypes}

\* a cluster of mixed nodes, from which the longer inventories are drawn
MixedNodes ==
    { NodeDict("node01", Attrs("free", "smallq,classq", "compute_vnode",
                 "8", "2", "8388608b", "4194304", Unreported, Unreported,
                 "41.p/0, 41.p/1, 42.p/0")),
      NodeDict("gpu01", Attrs("free", "gpuq", "gpu_vnode",
                 "2", "1", "2mb", "1mb", "2", "<various>", "43.p/0")),
      NodeDict("acc02", Attrs("job-busy", "gpuq,smallq", "gpu_vnode",
                 "6", "3", "256mb", "131072kb", "4", "3", "42.p/1,44.p/0")),
      NodeDict("acc03", Attrs("job-busy,offline", "gpuq", "gpu_vnode",
                 "2", "2", "2mb", "2mb", "2", "2", "45.p/0")),
      NodeDict("node04", Attrs("free", "classq", "compute_vnode",
                 "4", "1", "4mb", "1mb", Unreported, Unreported, "46.p/0")),
      NodeDict("node05", Attrs("free", "expressq", "compute_vnode",
                 "-4", "-1", "-4mb", "-1024kb", Unreported, Unreported, "")) }

\* a node whose memory is reported in a unit float() is handed with a letter
MalformedNodes ==
    { NodeDict("node06", Attrs("free", "bigmemq", "compute_vnode",
                 "64", "32", "1tb", "512mb", Unreported, Unreported, "47.p/0")) }

RECURSIVE SeqsUpTo(_, _)
SeqsUpTo(S, n) ==
    IF n = 0 THEN {<<>>}
    ELSE LET shorter == SeqsUpTo(S, n - 1)
         IN shorter \cup {Append(q, x) : q \in {r \in shorter : Len(r) = n - 1}, x \in S}

Inventories ==
    {<<n>> : n \in ClassifierNodes}
        \cup SeqsUpTo(MixedNodes, MaxNodes)
        \cup {<<b>> : b \in MalformedNodes}
        \cup {<<n, b>> : n \in MixedNodes, b \in MalformedNodes}
        \cup {<<b, n>> : n \in MixedNodes, b \in MalformedNodes}

(***************************************************************************)
(* The run: analyze_cluster of either script over one inventory            *)
(***************************************************************************)

\* the exit status of a process that has not ended
StillRunning == "running"

\* no function is being called on its own
NoCall == [op |-> "none"]

Scripts == {"clusterstats", "rescheck"}

Init ==
    /\ variant \in Scripts
    /\ nodes \in Inventories
    /\ idx = 0
    /\ pc = "loop"
    /\ stats = InitialStats
    /\ include = FALSE
    /\ reason = ""
    /\ node_type = ""
    /\ invocations = 1
    /\ stdout = <<>>
    /\ exit_status = StillRunning
    /\ call = NoCall
    /\ result = NoCall

\* what the iteration over nodes[idx + 1] leaves behind; a ValueError leaves
\* the loop and analyze_cluster for the handler of main
Iterate(it) ==
    /\ stats' = it.stats
    /\ include' = it.verdict.include
    /\ reason' = it.verdict.reason
    /\ node_type' = it.verdict.node_type
    /\ IF it.raised
       THEN pc' = "error" /\ idx' = idx
       ELSE pc' = "loop" /\ idx' = idx + 1
    /\ UNCHANGED <<variant, nodes, process_vars, call_vars>>

ClusterstatsIteration ==
    /\ variant = "clusterstats"
    /\ pc = "loop"
    /\ idx < Len(nodes)
    /\ Iterate(analyze_node(stats, nodes[idx + 1]))

RescheckIteration ==
    /\ variant = "rescheck"
    /\ pc = "loop"
    /\ idx < Len(nodes)
    /\ Iterate(rescheck_analyze_node(stats, nodes[idx + 1]))

\* return stats
ReturnStats ==
    /\ pc = "loop"
    /\ idx = Len(nodes)
    /\ pc' = "done"
    /\ UNCHANGED <<variant, nodes, idx, stats, include, reason, node_type,
                   process_vars, call_vars>>

Next == ClusterstatsIteration \/ RescheckIteration \/ ReturnStats

Spec == Init /\ [][Next]_vars

(***************************************************************************)
(* The node the classification variables speak of                          *)
(***************************************************************************)

HasVerdict == idx > 0 \/ pc = "error"

Judged == IF pc = "error" THEN nodes[idx + 1] ELSE nodes[idx]

JudgedName == Judged["name"]
JudgedState == dict_get(Judged, "state", "unknown")
JudgedQlist == dict_get(Judged, "resources_available.Qlist", "")
JudgedVntype == dict_get(Judged, "resources_available.vntype", "")

\* the queue names of the judged node
JudgedQueues == NodeQueues(JudgedQlist)

\* a comma separated state flag that reads down or offline in any case
HasDownOrOfflineFlag(state) ==
    \E f \in SeqRange(str_split(state, ",")) :
        str_lower(str_strip(f)) \in {"down", "offline"}

\* live, and of one of the two compute kinds
LiveComputeNode ==
    /\ HasVerdict
    /\ ~HasDownOrOfflineFlag(JudgedState)
    /\ JudgedVntype \in {"compute_vnode", "gpu_vnode"}

\* the name carries the letter rescheck.py takes for a GPU node
NameHasG(name) == \E i \in 1..Len(name) : CharAt(name, i) \in {"g", "G"}

\* the ledger's last entry under the reason is the judged node
LedgerHoldsJudged(why) ==
    /\ excluded_count(stats, why) = Len(excluded_names(stats, why))
    /\ Len(excluded_names(stats, why)) > 0
    /\ excluded_names(stats, why)[Len(excluded_names(stats, why))] = JudgedName

(***************************************************************************)
(* Claims on the classifier                                                *)
(***************************************************************************)

\* C1: a node whose state carries a down or offline flag, in any case and
\* also beside other flags, is excluded with the down/offline reason,
\* whatever its kind and its queue list, in both scripts.
C1_DownOfflineExcluded ==
    (HasVerdict /\ HasDownOrOfflineFlag(JudgedState))
        => (~include /\ reason = "down_offline")

C1_Witness ==
    /\ HasVerdict
    /\ JudgedState = "job-busy,offline"
    /\ JudgedVntype = "login_vnode"
    /\ "smallq" \in JudgedQueues
    /\ ~include
    /\ reason = "down_offline"

\* C2 as stated: a live node of a compute kind that advertises gpuq is
\* included in the gpu pool, whatever its name and its other queues.
C2_GpuQueueAlwaysGpu ==
    (LiveComputeNode /\ "gpuq" \in JudgedQueues)
        => (include /\ node_type = "gpu")

\* C2 amended: clusterstats.py includes it in the gpu pool whatever its name;
\* rescheck.py takes the pool from the name, and includes it in the gpu pool
\* exactly when the name contains the letter g.
C2_GpuQueueByVariant ==
    (LiveComputeNode /\ "gpuq" \in JudgedQueues)
        => IF variant = "clusterstats"
           THEN include /\ node_type = "gpu"
           ELSE (include /\ node_type = "gpu") <=> NameHasG(JudgedName)

C2_Witness ==
    /\ LiveComputeNode
    /\ variant = "clusterstats"
    /\ JudgedName = "node01"
    /\ JudgedQueues = {"gpuq", "smallq"}
    /\ include
    /\ node_type = "gpu"

\* C3 as stated: a live node of a compute kind without gpuq and with at least
\* one monitored queue is included in the compute pool, also when it
\* advertises queues that are not monitored.
C3_MonitoredAlwaysCompute ==
    (LiveComputeNode /\ "gpuq" \notin JudgedQueues
                     /\ JudgedQueues \cap MONITORED_QUEUES # {})
        => (include /\ node_type = "compute")

\* C3 amended: so it is in clusterstats.py; rescheck.py includes a node whose
\* name contains g in the gpu pool, and one whose name does not in the compute
\* pool unless it advertises interactiveq or classq, which excludes it under
\* the reason interactive or class.
C3_MonitoredByVariant ==
    (LiveComputeNode /\ "gpuq" \notin JudgedQueues
                     /\ JudgedQueues \cap MONITORED_QUEUES # {})
        => IF variant = "clusterstats"
           THEN include /\ node_type = "compute"
           ELSE IF NameHasG(JudgedName)
           THEN include /\ node_type = "gpu"
           ELSE IF "interactiveq" \in JudgedQueues
           THEN ~include /\ reason = "interactive"
           ELSE IF "classq" \in JudgedQueues
           THEN ~include /\ reason = "class"
           ELSE include /\ node_type = "compute"

C3_Witness ==
    /\ LiveComputeNode
    /\ variant = "clusterstats"
    /\ JudgedQueues = {"smallq", "classq"}
    /\ include
    /\ node_type = "compute"

\* C4: a live node whose kind is none of the two compute kinds is excluded as
\* not a compute node, whatever its queue list holds, in both scripts.
C4_KindBeforeQueues ==
    (HasVerdict /\ ~HasDownOrOfflineFlag(JudgedState)
                /\ JudgedVntype \notin {"compute_vnode", "gpu_vnode"})
        => (~include /\ reason = "not_compute_vnode")

C4_Witness ==
    /\ HasVerdict
    /\ JudgedState = "free"
    /\ JudgedVntype = "login_vnode"
    /\ JudgedQueues = {"gpuq", "smallq"}
    /\ ~include
    /\ reason = "not_compute_vnode"

\* C5: a live node of a compute kind whose queue list names no queue (not
\* reported, empty, or separators only) is included in the compute pool.
C5_NoQueueNamesIncluded ==
    (LiveComputeNode /\ JudgedQueues = {})
        => (include /\ node_type = "compute")

\* C6 as stated: a live node of a compute kind that names queues, none of
\* them gpuq or monitored, is excluded with the reason no_monitored_queues
\* and entered in the ledger under it.
C6_UnmonitoredExcluded ==
    (LiveComputeNode /\ JudgedQueues # {} /\ "gpuq" \notin JudgedQueues
                     /\ JudgedQueues \cap MONITORED_QUEUES = {})
        => (~include /\ reason = "no_monitored_queues"
                     /\ LedgerHoldsJudged("no_monitored_queues"))

\* the reason rescheck.py gives a node that names no monitored queue
RescheckUnmonitoredReason(queues) ==
    IF "interactiveq" \in queues THEN "interactive"
    ELSE IF "classq" \in queues THEN "class"
    ELSE IF "sysadminq" \in queues THEN "admin"
    ELSE "other_excluded"

\* C6 amended: so it is in clusterstats.py; rescheck.py excludes such a node
\* only if its name contains no g, under the reason interactive, class, admin
\* or other_excluded (the first of interactiveq, classq, sysadminq it names,
\* else other_excluded), and enters it in the ledger under that reason; a node
\* whose name contains g is included in the gpu pool.
C6_UnmonitoredByVariant ==
    (LiveComputeNode /\ JudgedQueues # {} /\ "gpuq" \notin JudgedQueues
                     /\ JudgedQueues \cap MONITORED_QUEUES = {})
        => IF variant = "clusterstats"
           THEN /\ ~include
                /\ reason = "no_monitored_queues"
                /\ LedgerHoldsJudged("no_monitored_queues")
           ELSE IF NameHasG(JudgedName)
           THEN include /\ node_type = "gpu"
           ELSE /\ ~include
                /\ reason = RescheckUnmonitoredReason(JudgedQueues)
                /\ LedgerHoldsJudged(reason)

C6_Witness ==
    /\ LiveComputeNode
    /\ variant = "clusterstats"
    /\ JudgedName = "node04"
    /\ JudgedQueues = {"classq"}
    /\ idx = 3
    /\ ~include
    /\ reason = "no_monitored_queues"
    /\ excluded_names(stats, "no_monitored_queues") = <<"node04", "node04">>

\* C7: every classification is one triple: included exactly when the reason
\* is included, the reason one of the known ones, and the pool of an
\* included node compute or gpu, never unknown.
C7_VerdictWellFormed ==
    HasVerdict =>
        /\ include \in BOOLEAN
        /\ include <=> (reason = "included")
        /\ reason \in {"included", "down_offline", "not_compute_vnode",
                       "no_monitored_queues", "interactive", "class",
                       "admin", "other_excluded"}
        /\ node_type \in {"compute", "gpu", "unknown"}
        /\ include => node_type \in {"compute", "gpu"}

C7_Witness ==
    /\ HasVerdict
    /\ ~HasDownOrOfflineFlag(JudgedState)
    /\ JudgedVntype = "compute_vnode"
    /\ "resources_available.Qlist" \notin DOMAIN Judged
    /\ include
    /\ reason = "included"
    /\ node_type = "compute"

(***************************************************************************)
(* Claims on the aggregation pass                                          *)
(***************************************************************************)

\* the classification the running script gives a node
ClassOf(node) ==
    IF variant = "clusterstats"
    THEN should_include_node(node["name"], dict_get(node, "state", "unknown"),
             dict_get(node, "resources_available.Qlist", ""),
             dict_get(node, "resources_available.vntype", ""))
    ELSE rescheck_should_include_node(node["name"], dict_get(node, "state", "unknown"),
             dict_get(node, "resources_available.Qlist", ""),
             dict_get(node, "resources_available.vntype", ""))

\* the parsed value of an integer field and of a memory field of a node
IntOf(node, key) ==
    IF variant = "clusterstats" THEN node_int(node, key) ELSE rescheck_node_int(node, key)

MemOf(node, key) ==
    IF variant = "clusterstats"
    THEN parse_memory_value(dict_get(node, key, "0")).value
    ELSE rescheck_parse_memory_value(dict_get(node, key, "0")).value

\* what a node brings to the totals: the pool it is classified as included
\* in and its parsed values, or no pool and nothing
ShareOf(node) ==
    IF ClassOf(node).include
    THEN [pool |-> ClassOf(node).node_type,
          count |-> 1,
          cores_available |-> IntOf(node, "resources_available.ncpus"),
          cores_assigned |-> IntOf(node, "resources_assigned.ncpus"),
          memory_available |-> MemOf(node, "resources_available.mem"),
          memory_assigned |-> MemOf(node, "resources_assigned.mem"),
          devices_available |-> IntOf(node, "resources_available.ngpus"),
          devices_assigned |-> IntOf(node, "resources_assigned.ngpus"),
          jobs |-> count_unique_jobs(dict_get(node, "jobs", ""))]
    ELSE [pool |-> "none", count |-> 0,
          cores_available |-> 0, cores_assigned |-> 0,
          memory_available |-> 0, memory_assigned |-> 0,
          devices_available |-> 0, devices_assigned |-> 0, jobs |-> {}]

\* the sum of one field over the first k shares that go to the pool
RECURSIVE SumOf(_, _, _, _)
SumOf(shares, pool, field, k) ==
    IF k = 0 THEN 0
    ELSE SumOf(shares, pool, field, k - 1)
         + (IF shares[k].pool = pool THEN shares[k][field] ELSE 0)

JobsOf(shares, pool) ==
    UNION {shares[i].jobs : i \in {j \in DOMAIN shares : shares[j].pool = pool}}

\* C8: after any number of processed nodes, and so at the end of the pass,
\* each pool's totals and job set are the sums and the union of the parsed
\* values of exactly the nodes classified as included in that pool; offline
\* and excluded nodes add nothing, and no node is counted in both pools.
C8_TotalsAreSumsOfIncluded ==
    \A shares \in {[i \in 1..idx |-> ShareOf(nodes[i])]} :
       /\ stats.compute.included_nodes = SumOf(shares, "compute", "count", idx)
       /\ stats.compute.cores_available = SumOf(shares, "compute", "cores_available", idx)
       /\ stats.compute.cores_assigned = SumOf(shares, "compute", "cores_assigned", idx)
       /\ stats.compute.memory_available_mb = SumOf(shares, "compute", "memory_available", idx)
       /\ stats.compute.memory_assigned_mb = SumOf(shares, "compute", "memory_assigned", idx)
       /\ stats.compute.unique_jobs = JobsOf(shares, "compute")
       /\ stats.gpu.included_nodes = SumOf(shares, "gpu", "count", idx)
       /\ stats.gpu.cpu_cores_available = SumOf(shares, "gpu", "cores_available", idx)
       /\ stats.gpu.cpu_cores_assigned = SumOf(shares, "gpu", "cores_assigned", idx)
       /\ stats.gpu.memory_available_mb = SumOf(shares, "gpu", "memory_available", idx)
       /\ stats.gpu.memory_assigned_mb = SumOf(shares, "gpu", "memory_assigned", idx)
       /\ stats.gpu.gpu_devices_available = SumOf(shares, "gpu", "devices_available", idx)
       /\ stats.gpu.gpu_devices_assigned = SumOf(shares, "gpu", "devices_assigned", idx)
       /\ stats.gpu.unique_jobs = JobsOf(shares, "gpu")
       /\ stats.compute.included_nodes + stats.gpu.included_nodes
            = Cardinality({i \in 1..idx : shares[i].pool # "none"})

C8_Witness ==
    /\ pc = "done"
    /\ Len(nodes) = 3
    /\ stats.compute.included_nodes = 1
    /\ stats.gpu.included_nodes = 1
    /\ stats.compute.offline_nodes + stats.gpu.offline_nodes = 1
    /\ stats.compute.cores_available > 0
    /\ stats.gpu.gpu_devices_available > 0
    /\ stats.gpu.memory_assigned_mb > 0
    /\ stats.compute.unique_jobs # {}

\* the whole pass of the running script over an inventory: how it ends, and
\* with which stats
RECURSIVE PassFrom(_, _, _)
PassFrom(st, inventory, i) ==
    IF i > Len(inventory) THEN [pc |-> "done", stats |-> st]
    ELSE CHOOSE end \in
            {IF it.raised THEN [pc |-> "error", stats |-> it.stats]
             ELSE PassFrom(it.stats, inventory, i + 1) :
                it \in {IF variant = "clusterstats"
                        THEN analyze_node(st, inventory[i])
                        ELSE rescheck_analyze_node(st, inventory[i])}} : TRUE

\* what the claim compares of a finished pass: totals, node counts,
\* exclusion counts by reason and the sizes of the job sets
Summary(end) ==
    IF end.pc = "error" THEN <<"error">>
    ELSE <<"done",
           [end.stats.compute EXCEPT !.unique_jobs = Cardinality(@)],
           [end.stats.gpu EXCEPT !.unique_jobs = Cardinality(@)],
           end.stats.total_nodes,
           end.stats.excluded_counts>>

C10_CountersNeverDecrease ==
    [][/\ stats'.compute.included_nodes >= stats.compute.included_nodes
       /\ stats'.compute.offline_nodes >= stats.compute.offline_nodes
       /\ stats'.compute.cores_available >= stats.compute.cores_available
       /\ stats'.compute.cores_assigned >= stats.compute.cores_assigned
       /\ stats'.compute.memory_available_mb >= stats.compute.memory_available_mb
       /\ stats'.compute.memory_assigned_mb >= stats.compute.memory_assigned_mb
       /\ stats'.gpu.included_nodes >= stats.gpu.included_nodes
       /\ stats'.gpu.offline_nodes >= stats.gpu.offline_nodes
       /\ stats'.gpu.cpu_cores_available >= stats.gpu.cpu_cores_available
       /\ stats'.gpu.cpu_cores_assigned >= stats.gpu.cpu_cores_assigned
       /\ stats'.gpu.memory_available_mb >= stats.gpu.memory_available_mb
       /\ stats'.gpu.memory_assigned_mb >= stats.gpu.memory_assigned_mb
       /\ stats'.gpu.gpu_devices_available >= stats.gpu.gpu_devices_available
       /\ stats'.gpu.gpu_devices_assigned >= stats.gpu.gpu_devices_assigned]_vars

(***************************************************************************)
(* Inventory parser: parse_pbsnodes_output (the same text in both scripts) *)
(***************************************************************************)

\* current_node = None
None == <<>>

\* key, value = line.split('=', 1), each stripped
AttributeKey(line) == str_strip(SubSeq(line, 1, IndexIn(line, "=") - 1))
AttributeValue(line) == str_strip(SubSeq(line, IndexIn(line, "=") + 1, Len(line)))

\* the loop over the lines from line i on: the nodes, once the last
\* current_node is appended
RECURSIVE parse_lines(_, _, _, _)
parse_lines(lines, i, parsed, current_node) ==
    IF i > Len(lines)
    THEN IF current_node # None THEN Append(parsed, current_node) ELSE parsed
    ELSE \* the singleton binds the stripped line once
         CHOOSE r \in
           {IF line = ""
            THEN parse_lines(lines, i + 1, parsed, current_node)
            ELSE IF ~str_startswith(line, " ") /\ ~str_startswith(line, "\t")
            THEN parse_lines(lines, i + 1,
                     IF current_node # None THEN Append(parsed, current_node) ELSE parsed,
                     [k \in {"name"} |-> str_strip(line)])
            ELSE IF current_node = None
            THEN parse_lines(lines, i + 1, parsed, current_node)
            ELSE IF str_contains(str_strip(line), "=")
            THEN parse_lines(lines, i + 1, parsed,
                     dict_put(current_node, AttributeKey(str_strip(line)),
                                            AttributeValue(str_strip(line))))
            ELSE parse_lines(lines, i + 1, parsed, current_node)
              : line \in {str_rstrip(lines[i])}} : TRUE

parse_pbsnodes_output(content) ==
    parse_lines(str_split(str_strip(content), "\n"), 1, <<>>, None)

(***************************************************************************)
(* Numbers of the report.  The report divides and rounds floats; here a    *)
(* number is the fraction num / den in lowest terms, den > 0.              *)
(***************************************************************************)

Abs(n) == IF n < 0 THEN 0 - n ELSE n

RECURSIVE GCD(_, _)
GCD(a, b) == IF b = 0 THEN a ELSE GCD(b, a % b)

Ratio(n, d) ==
    LET g == GCD(Abs(n), Abs(d))
        sign == IF d < 0 THEN 0 - 1 ELSE 1
    IN [num |-> sign * (n \div g), den |-> sign * (d \div g)]

\* an int of the stats
Whole(n) == [num |-> n, den |-> 1]

\* a memory total of the stats in MB, from the model's bytes
Megabytes(bytes) == Ratio(bytes, MB_BYTES)

ZeroDivisionError == [raised |-> TRUE, value |-> "ZeroDivisionError"]

\* a / b
TrueDivide(a, b) ==
    IF b.num = 0 THEN ZeroDivisionError
    ELSE Returned(Ratio(a.num * b.den, a.den * b.num))

\* x * k and x / k for a whole k > 0
Times(x, k) == Ratio(x.num * k, x.den)
Over(x, k) == Ratio(x.num, x.den * k)

\* x >= k, x < k and x <= k for a whole k
AtLeast(x, k) == x.num >= k * x.den
Below(x, k) == x.num < k * x.den
AtMost(x, k) == x.num <= k * x.den

\* the decimal digits of n, at least width of them
RECURSIVE ZeroPadded(_, _)
ZeroPadded(n, width) ==
    IF width <= 1 /\ n < 10 THEN ToString(n)
    ELSE ZeroPadded(n \div 10, width - 1) \o ToString(n % 10)

\* f"{x:.{digits}f}": the nearest decimal, a tie going to the even digit
FormatFixed(x, digits) ==
    LET scaled == Abs(x.num) * PowerOfTen(digits)
        q == scaled \div x.den
        rem == scaled % x.den
        rounded == IF 2 * rem > x.den \/ (2 * rem = x.den /\ q % 2 = 1) THEN q + 1 ELSE q
        sign == IF x.num < 0 THEN "-" ELSE ""
    IN IF digits = 0 THEN sign \o ToString(rounded)
       ELSE sign \o ToString(rounded \div PowerOfTen(digits)) \o "."
                 \o ZeroPadded(rounded % PowerOfTen(digits), digits)

\* f"{n:,}" for an int
RECURSIVE Grouped(_)
Grouped(n) ==
    IF n < 1000 THEN ToString(n)
    ELSE Grouped(n \div 1000) \o "," \o ZeroPadded(n % 1000, 3)

FormatThousands(x) == IF x.num < 0 THEN "-" \o Grouped(0 - x.num) ELSE Grouped(x.num)

(***************************************************************************)
(* Report formatting                                                       *)
(***************************************************************************)

\* class Colors: the escape sequences, written as the source writes them
GREEN == "\\033[92m"
YELLOW == "\\033[93m"
RED == "\\033[91m"
RESET == "\\033[0m"
BOLD == "\\033[1m"

\* get_color_for_utilization, with 70 itself already red
get_color_for_utilization_below_70(percentage) ==
    IF Below(percentage, 50) THEN GREEN
    ELSE IF Below(percentage, 70) THEN YELLOW
    ELSE RED

\* get_color_for_utilization (the same text in both scripts)
get_color_for_utilization(percentage) ==
    IF Below(percentage, 50) THEN GREEN
    ELSE IF AtMost(percentage, 70) THEN YELLOW
    ELSE RED

\* format_memory (the same text in both scripts)
format_memory(mb) ==
    IF mb.num \div mb.den >= 1024 * 1024
    THEN FormatFixed(Over(Over(mb, 1024), 1024), 1) \o " TB"
    ELSE IF AtLeast(mb, 1024)
    THEN FormatFixed(Over(mb, 1024), 1) \o " GB"
    ELSE FormatFixed(mb, 0) \o " MB"

\* the text of a utilization: colour, used, total, percentage
DisplayText(color, used, total, resource_name, util_percent) ==
    color \o used \o " used / " \o total \o " total"
          \o (IF resource_name = "cores" \/ resource_name = "devices"
              THEN " " \o resource_name ELSE "")
          \o " (" \o FormatFixed(util_percent, 1) \o "%)" \o RESET

\* clusterstats.py calculate_utilization_display, dividing also by an
\* available of 0
calculate_utilization_display_unguarded(assigned, available, resource_name) ==
    IF available.num >= 0
    THEN LET quotient == TrueDivide(assigned, available)
         IN IF quotient.raised THEN quotient
            ELSE LET util_percent == Times(quotient.value, 100)
                     color == get_color_for_utilization(util_percent)
                 IN IF resource_name = "cores"
                    THEN Returned(DisplayText(color, FormatThousands(assigned),
                             FormatThousands(available), resource_name, util_percent))
                    ELSE Returned(DisplayText(color, format_memory(assigned),
                             format_memory(available), "memory", util_percent))
    ELSE IF resource_name = "cores"
    THEN Returned("0 used / 0 total " \o resource_name \o " (0.0%)")
    ELSE Returned("0 used / 0 total (0.0%)")

\* clusterstats.py calculate_utilization_display: the text, or the
\* ZeroDivisionError of the division
calculate_utilization_display(assigned, available, resource_name) ==
    IF available.num > 0
    THEN LET quotient == TrueDivide(assigned, available)
         IN IF quotient.raised THEN quotient
            ELSE LET util_percent == Times(quotient.value, 100)
                     color == get_color_for_utilization(util_percent)
                 IN IF resource_name = "cores"
                    THEN Returned(DisplayText(color, FormatThousands(assigned),
                             FormatThousands(available), resource_name, util_percent))
                    ELSE Returned(DisplayText(color, format_memory(assigned),
                             format_memory(available), "memory", util_percent))
    ELSE IF resource_name = "cores"
    THEN Returned("0 used / 0 total " \o resource_name \o " (0.0%)")
    ELSE Returned("0 used / 0 total (0.0%)")

\* rescheck.py print_utilization_report: the if/else it writes out for each
\* resource, resource_name being cores, devices or memory
rescheck_utilization_display(assigned, available, resource_name) ==
    IF available.num > 0
    THEN LET quotient == TrueDivide(assigned, available)
         IN IF quotient.raised THEN quotient
            ELSE LET util_percent == Times(quotient.value, 100)
                     color == get_color_for_utilization(util_percent)
                 IN IF resource_name = "memory"
                    THEN Returned(DisplayText(color, format_memory(assigned),
                             format_memory(available), resource_name, util_percent))
                    ELSE Returned(DisplayText(color, FormatThousands(assigned),
                             FormatThousands(available), resource_name, util_percent))
    ELSE IF resource_name = "memory"
    THEN Returned("0 used / 0 total (0.0%)")
    ELSE Returned("0 used / 0 total " \o resource_name \o " (0.0%)")

\* the characters of node names in the order of their code points
CODE_POINTS ==
    " !#$%&()*+,-./0123456789:;<=>?@ABCDEFGHIJKLMNOPQRSTUVWXYZ[]^_abcdefghijklmnopqrstuvwxyz{|}~"

CodePointOf == [c \in {CharAt(CODE_POINTS, i) : i \in 1..Len(CODE_POINTS)} |->
                   IndexIn(CODE_POINTS, c)]

\* a < b for two strings
RECURSIVE str_less(_, _)
str_less(a, b) ==
    IF b = "" THEN FALSE
    ELSE IF a = "" THEN TRUE
    ELSE IF CharAt(a, 1) = CharAt(b, 1)
    THEN str_less(SubSeq(a, 2, Len(a)), SubSeq(b, 2, Len(b)))
    ELSE CodePointOf[CharAt(a, 1)] < CodePointOf[CharAt(b, 1)]

\* sorted(names)
RECURSIVE sorted(_)
sorted(names) ==
    IF names = <<>> THEN <<>>
    ELSE LET rest == sorted(Tail(names))
             before == {i \in 1..Len(rest) : ~str_less(Head(names), rest[i])}
         IN SubSeq(rest, 1, Cardinality(before)) \o <<Head(names)>>
                \o SubSeq(rest, Cardinality(before) + 1, Len(rest))

\* sep.join(names)
RECURSIVE str_join(_, _)
str_join(sep, names) ==
    IF names = <<>> THEN ""
    ELSE IF Len(names) = 1 THEN names[1]
    ELSE names[1] \o sep \o str_join(sep, Tail(names))

\* print(label + text), the text being a display that may have raised
Labelled(label, display) ==
    IF display.raised THEN display ELSE Returned(label \o display.value)

\* the lines the prints leave, up to the first one whose text raised
Printed(items) ==
    LET raising == {i \in 1..Len(items) : items[i].raised}
        n == IF raising = {} THEN Len(items)
             ELSE (CHOOSE i \in raising : \A j \in raising : i <= j) - 1
    IN [lines |-> [i \in 1..n |-> items[i].value], raised |-> raising # {}]

\* "<active> active, <offline> offline (<total> total)"
NodeCounts(pool) ==
    ToString(pool.included_nodes) \o " active, " \o ToString(pool.offline_nodes)
        \o " offline (" \o ToString(pool.included_nodes + pool.offline_nodes) \o " total)"

\* the job summary line (the same text in both scripts)
JobsLine(st) ==
    IF Cardinality(st.gpu.unique_jobs) > 0
    THEN "Jobs:         " \o ToString(Cardinality(st.compute.unique_jobs))
             \o " running (compute), " \o ToString(Cardinality(st.gpu.unique_jobs))
             \o " running (GPU)"
    ELSE "Jobs:         " \o ToString(Cardinality(st.compute.unique_jobs)) \o " running"

\* one line of the exclusions, when the reason has excluded a node
ExclusionLine(st, why, before, after) ==
    IF excluded_count(st, why) > 0
    THEN <<Returned("  " \o ToString(excluded_count(st, why)) \o before
              \o (IF excluded_count(st, why) > 1 THEN "nodes" ELSE "node") \o after
              \o " (" \o str_join(", ", sorted(excluded_names(st, why))) \o ")")>>
    ELSE <<>>

\* print("\nExcluded:") and the exclusion lines, when there are any
ExclusionsSection(exclusions) ==
    IF exclusions # <<>>
    THEN <<Returned(""), Returned("Excluded:")>> \o exclusions
    ELSE <<>>

\* clusterstats.py print_utilization_report: the lines printed, and whether
\* an exception ended it
print_utilization_report(st) ==
    Printed(
      <<Returned(BOLD \o "CLUSTER UTILIZATION" \o RESET),
        Returned("==================="),
        Returned("Compute Nodes: " \o NodeCounts(st.compute)),
        Labelled("CPU:          ",
            calculate_utilization_display(Whole(st.compute.cores_assigned),
                Whole(st.compute.cores_available), "cores")),
        Labelled("Memory:       ",
            calculate_utilization_display(Megabytes(st.compute.memory_assigned_mb),
                Megabytes(st.compute.memory_available_mb), "memory"))>>
      \o (IF st.gpu.included_nodes > 0 \/ st.gpu.offline_nodes > 0
          THEN <<Returned(""),
                 Returned("GPU Nodes:    " \o NodeCounts(st.gpu)),
                 Labelled("CPU:          ",
                     calculate_utilization_display(Whole(st.gpu.cpu_cores_assigned),
                         Whole(st.gpu.cpu_cores_available), "cores")),
                 Labelled("GPUs:         ",
                     calculate_utilization_display(Whole(st.gpu.gpu_devices_assigned),
                         Whole(st.gpu.gpu_devices_available), "devices")),
                 Labelled("GPU Memory:   ",
                     calculate_utilization_display(Megabytes(st.gpu.memory_assigned_mb),
                         Megabytes(st.gpu.memory_available_mb), "memory"))>>
          ELSE <<>>)
      \o <<Returned(""), Returned(JobsLine(st))>>
      \o ExclusionsSection(
             ExclusionLine(st, "no_monitored_queues", " ", " with no monitored queues")
                 \o ExclusionLine(st, "not_compute_vnode", " non-compute ", "")))

\* rescheck.py print_utilization_report
rescheck_print_utilization_report(st) ==
    Printed(
      <<Returned(BOLD \o "PBS CLUSTER UTILIZATION" \o RESET),
        Returned("========================"),
        Returned("Compute Nodes: " \o NodeCounts(st.compute)),
        Labelled("CPU:          ",
            rescheck_utilization_display(Whole(st.compute.cores_assigned),
                Whole(st.compute.cores_available), "cores")),
        Labelled("Memory:       ",
            rescheck_utilization_display(Megabytes(st.compute.memory_assigned_mb),
                Megabytes(st.compute.memory_available_mb), "memory"))>>
      \o (IF st.gpu.included_nodes > 0 \/ st.gpu.offline_nodes > 0
          THEN <<Returned(""),
                 Returned("GPU Nodes:    " \o NodeCounts(st.gpu)),
                 Labelled("CPU:          ",
                     rescheck_utilization_display(Whole(st.gpu.cpu_cores_assigned),
                         Whole(st.gpu.cpu_cores_available), "cores")),
                 Labelled("GPUs:         ",
                     rescheck_utilization_display(Whole(st.gpu.gpu_devices_assigned),
                         Whole(st.gpu.gpu_devices_available), "devices")),
                 Labelled("GPU Memory:   ",
                     rescheck_utilization_display(Megabytes(st.gpu.memory_assigned_mb),
                         Megabytes(st.gpu.memory_available_mb), "memory"))>>
          ELSE <<>>)
      \o <<Returned(""), Returned(JobsLine(st))>>
      \o ExclusionsSection(
             ExclusionLine(st, "interactive", " interactive ", "")
                 \o ExclusionLine(st, "admin", " admin ", "")
                 \o ExclusionLine(st, "class", " class ", "")
                 \o ExclusionLine(st, "other_excluded", " other excluded ", "")))

(***************************************************************************)
(* The process: main of either script, from the start of pbsnodes to the   *)
(* exit.  pbsnodes is the environment: it may return its output, fail, be  *)
(* missing, or not return at all.                                          *)
(***************************************************************************)

\* longest inventory pbsnodes reports to main
MaxReported == 2

AttributeOrder ==
    <<"state", "resources_available.Qlist", "resources_available.vntype",
      "resources_available.ncpus", "resources_assigned.ncpus",
      "resources_available.mem", "resources_assigned.mem",
      "resources_available.ngpus", "resources_assigned.ngpus", "jobs">>

\* the block of a node in the output of pbsnodes -a: the name at the left
\* margin, an indented line for each attribute, a blank line
RECURSIVE WriteAttributes(_, _)
WriteAttributes(node, i) ==
    IF i > Len(AttributeOrder) THEN ""
    ELSE (IF AttributeOrder[i] \in DOMAIN node
          THEN "     " \o AttributeOrder[i] \o " = " \o node[AttributeOrder[i]] \o "\n"
          ELSE "")
         \o WriteAttributes(node, i + 1)

RECURSIVE PbsnodesOutput(_)
PbsnodesOutput(inventory) ==
    IF inventory = <<>> THEN ""
    ELSE Head(inventory)["name"] \o "\n" \o WriteAttributes(Head(inventory), 1) \o "\n"
         \o PbsnodesOutput(Tail(inventory))

\* a node that reports what it has assigned but not what it has
UnspecifiedNodes ==
    { NodeDict("node07", Attrs("free", "smallq", "compute_vnode",
                 "<various>", "3", "<various>", "2mb", Unreported, Unreported,
                 "48.p/0")) }

\* a node that runs jobs other nodes of the cluster run too
SharingNodes ==
    { NodeDict("node08", Attrs("job-busy", "smallq", "compute_vnode",
                 "4", "4", "4mb", "2mb", Unreported, Unreported,
                 "41.p/2, 42.p/2,42.p/3")) }

ReportedInventories ==
    SeqsUpTo(MixedNodes, MaxReported)
        \cup {<<b>> : b \in MalformedNodes \cup UnspecifiedNodes}
        \cup {<<n, b>> : n \in MixedNodes,
                         b \in MalformedNodes \cup UnspecifiedNodes \cup SharingNodes}

\* what pbsnodes -a writes to its standard output when it exits with 0
PbsnodesOutputs == {PbsnodesOutput(inventory) : inventory \in ReportedInventories}

\* the exit statuses of a failing pbsnodes
FailureStatuses == {1, 2}

MainInit ==
    /\ variant \in Scripts
    /\ nodes = <<>>
    /\ idx = 0
    /\ pc = "main"
    /\ stats = InitialStats
    /\ include = FALSE
    /\ reason = ""
    /\ node_type = ""
    /\ invocations = 0
    /\ stdout = <<>>
    /\ exit_status = StillRunning
    /\ call = NoCall
    /\ result = NoCall

\* print(line); sys.exit(status)
Exit(lines, status) ==
    /\ stdout' = stdout \o lines
    /\ exit_status' = status
    /\ pc' = "exited"
    /\ UNCHANGED <<variant, nodes, idx, stats, include, reason, node_type, invocations,
                   call_vars>>

\* the start of main, with the title of the report printed before the
\* inventory is fetched
RunPbsnodes_title_first ==
    /\ pc = "main"
    /\ pc' = "run_pbsnodes"
    /\ invocations' = invocations + 1
    /\ stdout' = Append(stdout, BOLD \o "CLUSTER UTILIZATION" \o RESET)
    /\ UNCHANGED <<variant, nodes, idx, stats, include, reason, node_type,
                   exit_status, call_vars>>

\* main calls analyze_cluster, which calls run_pbsnodes: subprocess.run
\* starts pbsnodes -a and waits for it
RunPbsnodes ==
    /\ pc = "main"
    /\ pc' = "run_pbsnodes"
    /\ invocations' = invocations + 1
    /\ UNCHANGED <<variant, nodes, idx, stats, include, reason, node_type, stdout,
                   exit_status, call_vars>>

\* pbsnodes exits with 0: run_pbsnodes returns its output, which
\* parse_pbsnodes_output turns into the nodes of the loop
PbsnodesReturns ==
    /\ pc = "run_pbsnodes"
    /\ \E content \in PbsnodesOutputs :
          nodes' = parse_pbsnodes_output(content)
    /\ stats' = InitialStats
    /\ idx' = 0
    /\ pc' = "loop"
    /\ UNCHANGED <<variant, include, reason, node_type, process_vars, call_vars>>

\* except subprocess.CalledProcessError
PbsnodesFails ==
    /\ pc = "run_pbsnodes"
    /\ \E status \in FailureStatuses :
          Exit(<<"Error running pbsnodes: Command '['pbsnodes', '-a']' returned non-zero exit status "
                     \o ToString(status) \o ".">>, 1)

\* except FileNotFoundError
PbsnodesNotFound ==
    /\ pc = "run_pbsnodes"
    /\ Exit(<<"Error: pbsnodes command not found. Make sure PBS Pro is installed and in PATH.">>, 1)

\* the argument of the float() that raised in parse_memory_value
FloatArgument(mem_str) ==
    LET m == str_lower(str_strip(mem_str))
    IN IF str_endswith(m, "mb") \/ str_endswith(m, "kb") \/ str_endswith(m, "gb")
       THEN str_drop_last(m, 2)
       ELSE str_drop_last(m, 1)

\* the memory text of the node at which the loop raised (the two scripts
\* raise on the same texts)
RaisingText(node) ==
    LET available == dict_get(node, "resources_available.mem", "0")
        assigned == dict_get(node, "resources_assigned.mem", "0")
    IN IF parse_memory_value(available).raised THEN available ELSE assigned

\* main: except Exception, after the ValueError of the loop
ReportError ==
    /\ pc = "error"
    /\ Exit(<<"Error: could not convert string to float: '"
                  \o FloatArgument(RaisingText(nodes[idx + 1])) \o "'">>, 1)

\* main: print_utilization_report(stats), then the end of the script
PrintReport ==
    /\ pc = "done"
    /\ \E report \in {IF variant = "clusterstats"
                      THEN print_utilization_report(stats)
                      ELSE rescheck_print_utilization_report(stats)} :
          IF report.raised
          THEN Exit(report.lines \o <<"Error: division by zero">>, 1)
          ELSE Exit(report.lines, 0)

\* main: except KeyboardInterrupt, the user interrupting the script
KeyboardInterrupt ==
    /\ pc \in {"run_pbsnodes", "loop", "done"}
    /\ Exit(<<"", "Operation cancelled by user.">>, 1)

\* the steps of the script itself
MainStep ==
    \/ RunPbsnodes
    \/ ClusterstatsIteration
    \/ RescheckIteration
    \/ ReturnStats
    \/ ReportError
    \/ PrintReport

\* the steps of pbsnodes and of the user
EnvironmentStep ==
    \/ PbsnodesReturns
    \/ PbsnodesFails
    \/ PbsnodesNotFound
    \/ KeyboardInterrupt

MainNext == MainStep \/ EnvironmentStep

MainSpec == MainInit /\ [][MainNext]_vars

\* the states in which the script has a step of its own to take: it is at a
\* statement, not waiting in subprocess.run and not ended.  This is
\* ENABLED <<MainStep>>_vars: in each of these states one of the steps has its
\* guard true, and each step changes pc or idx
MainStepEnabled == pc \in {"main", "loop", "error", "done"}

\* the interpreter runs the script: weak fairness of the script's steps.
\* For the start of pbsnodes and the return from the loop it is written
\* with WF_vars; for the steps of the script as a whole, which include
\* these two, it is written out as what WF_vars(MainStep) stands for, with
\* its ENABLED as the state predicate above.  Nothing makes pbsnodes return
\* or the user interrupt
MainFairSpec ==
    /\ MainSpec
    /\ WF_vars(RunPbsnodes)
    /\ WF_vars(ReturnStats)
    /\ []<>(~MainStepEnabled) \/ []<><<MainStep>>_vars

(***************************************************************************)
(* The functions of the scripts called on their own, on texts written the  *)
(* way an inventory writes them                                            *)
(***************************************************************************)

MemoryUnits == {"", "b", "kb", "mb", "gb", "tb"}

\* the magnitudes written before a unit; the amounts stay below 2 GB
Magnitudes(unit) == IF unit \in {"gb", "tb"} THEN {1} ELSE {1, 3, 1024, 1500}

LetterCases == {"lower", "upper", "capital"}

Paddings == {"", " ", "\t "}

SpellUnit(unit, letters) ==
    CASE letters = "lower" -> unit
      [] letters = "upper" -> str_upper(unit)
      [] letters = "capital" ->
            IF unit = "" THEN ""
            ELSE str_upper(CharAt(unit, 1)) \o SubSeq(unit, 2, Len(unit))

\* a memory amount as text: the magnitude, the unit, whitespace around them
WriteMemory(x, unit, letters, pad) == pad \o ToString(x) \o SpellUnit(unit, letters) \o pad

\* memory texts that are not a whole magnitude followed by a unit
OtherMemoryTexts ==
    {"", " ", "\t", "<various>", "various", "abcmb", "xb", "1tb", "1.5tb", "mb", "kb",
     "gb", "b", " MB ", "12 34", "1.5.2mb", "--1", "1,024kb", "n/a", "1.5mb", "0.5kb",
     ".5mb", "2.mb", "1_0mb", "1_mb", "-3mb", "+2kb", "1 mb", "0", "0b", "8gib"}

MemoryCalls ==
    {[op |-> "parse_memory_value", script |-> script, written |-> TRUE,
      mem_str |-> WriteMemory(x, unit, letters, pad), magnitude |-> x, unit |-> unit] :
        script \in Scripts, unit \in MemoryUnits, x \in {1, 3, 1024, 1500},
        letters \in LetterCases, pad \in Paddings}
    \cup
    {[op |-> "parse_memory_value", script |-> script, written |-> FALSE,
      mem_str |-> text, magnitude |-> 0, unit |-> ""] :
        script \in Scripts, text \in OtherMemoryTexts}

CallInit ==
    /\ variant = "none"
    /\ nodes = <<>>
    /\ idx = 0
    /\ pc = "idle"
    /\ stats = InitialStats
    /\ include = FALSE
    /\ reason = ""
    /\ node_type = ""
    /\ invocations = 0
    /\ stdout = <<>>
    /\ exit_status = StillRunning
    /\ call = NoCall
    /\ result = NoCall

\* what a call leaves: the call and its result; nothing of the run changes.
\* Each behaviour makes one call (call = NoCall before it).
Called(c, r) ==
    /\ pc = "idle"
    /\ call' = c
    /\ result' = r
    /\ UNCHANGED <<variant, nodes, idx, pc, stats, include, reason, node_type, process_vars>>

ParseMemoryCall ==
    /\ call = NoCall
    /\ \E c \in MemoryCalls :
          /\ c.written => c.magnitude \in Magnitudes(c.unit)
          /\ Called(c, IF c.script = "clusterstats"
                       THEN parse_memory_value(c.mem_str)
                       ELSE rescheck_parse_memory_value(c.mem_str))

\* a whole number as text: whitespace, a sign, the digits
WriteInt(n, sign, pad) == pad \o sign \o ToString(n) \o pad

\* texts that are not a whole number
OtherIntTexts ==
    {"", " ", "\t", "<various>", "various", "1.5", "8 cores", "abc", "0x10", "- 3",
     "++1", "1e3", "n/a", "1__0", "_1", "1_", "4,096", "<various"}

IntDefaults == {0, 5, -1}

IntCalls ==
    {[op |-> "safe_int_parse", script |-> script, written |-> TRUE,
      value |-> WriteInt(n, sign, pad), number |-> IF sign = "-" THEN 0 - n ELSE n,
      default |-> default] :
        script \in Scripts, n \in {0, 7, 12, 128, 1000}, sign \in {"", "+", "-"},
        pad \in Paddings, default \in IntDefaults}
    \cup
    {[op |-> "safe_int_parse", script |-> script, written |-> FALSE,
      value |-> text, number |-> 0, default |-> default] :
        script \in Scripts, text \in OtherIntTexts, default \in IntDefaults}

SafeIntCall ==
    /\ call = NoCall
    /\ \E c \in IntCalls :
          Called(c, IF c.script = "clusterstats"
                    THEN safe_int_parse(c.value, c.default)
                    ELSE rescheck_safe_int_parse(c.value, c.default))

\* the largest percentage handed to get_color_for_utilization, in tenths
MaxPercentTenths == 1100

\* percentages: every tenth from 0 up, and some beside the thresholds and
\* outside 0..100
Percentages ==
    {Ratio(k, 10) : k \in 0..MaxPercentTenths}
        \cup {Ratio(4999, 100), Ratio(5001, 100), Ratio(6999, 100), Ratio(7001, 100),
              Ratio(0 - 25, 1), Ratio(200, 3), Ratio(5000, 1)}

ColorCall ==
    /\ call = NoCall
    /\ \E p \in Percentages :
          Called([op |-> "get_color_for_utilization", percentage |-> p],
                 get_color_for_utilization(p))

\* longest pbsnodes output handed to parse_pbsnodes_output, in lines
MaxLines == 4

\* the lines of a pbsnodes output: node names at the left margin, indented
\* attributes, and lines that say nothing
OutputLines ==
    { [kind |-> "name", text |-> "node01", name |-> "node01"],
      [kind |-> "name", text |-> "gpu01 ", name |-> "gpu01"],
      [kind |-> "attribute", text |-> "     state = free", key |-> "state", value |-> "free"],
      [kind |-> "attribute", text |-> "\tcomment=a = b ", key |-> "comment",
       value |-> "a = b"],
      [kind |-> "nothing", text |-> ""],
      [kind |-> "nothing", text |-> "   \t"],
      [kind |-> "nothing", text |-> "     Mom"] }

Documents == SeqsUpTo(OutputLines, MaxLines)

\* the text of a document: each line and its newline
RECURSIVE Render(_)
Render(document) ==
    IF document = <<>> THEN ""
    ELSE Head(document).text \o "\n" \o Render(Tail(document))

ParseOutputCall ==
    /\ call = NoCall
    /\ \E document \in Documents :
          Called([op |-> "parse_pbsnodes_output", document |-> document],
                 parse_pbsnodes_output(Render(document)))

(***************************************************************************)
(* Queue eligibility.  The resolver is not among the sources; it is        *)
(* modelled from the specification (sections 3 and 4.5): a static table of *)
(* QueueSpec entries, each evaluated on its own against the footprint.     *)
(***************************************************************************)

\* a QueueSpec without minMemoryGB
NoMinimum == 0

\* the QueueSpec table, with the limits scaled down: regular queues of
\* growing size, the high-memory queue with its minimum, and the
\* time-limited queue
QueueSpecs ==
    { [name |-> "smallq", maxCores |-> 2, maxMemoryGB |-> 4,
       minMemoryGB |-> NoMinimum, priority |-> 4],
      [name |-> "mediumq", maxCores |-> 4, maxMemoryGB |-> 6,
       minMemoryGB |-> NoMinimum, priority |-> 3],
      [name |-> "largeq", maxCores |-> 8, maxMemoryGB |-> 8,
       minMemoryGB |-> NoMinimum, priority |-> 2],
      [name |-> "bigmemq", maxCores |-> 8, maxMemoryGB |-> 12,
       minMemoryGB |-> 5, priority |-> 1],
      [name |-> "expressq", maxCores |-> 3, maxMemoryGB |-> 3,
       minMemoryGB |-> NoMinimum, priority |-> 0] }

\* a queue admitting a footprint only from 2 cores up
IsEligible_from_two_cores(queue, requestedCores, requestedMemoryGB) ==
    /\ requestedCores >= 2
    /\ requestedCores <= queue.maxCores
    /\ requestedMemoryGB <= queue.maxMemoryGB
    /\ queue.minMemoryGB # NoMinimum => requestedMemoryGB >= queue.minMemoryGB

\* the static limits of a queue admit the footprint: the maxima inclusive,
\* and the minimum memory, where the queue has one, inclusive
IsEligible(queue, requestedCores, requestedMemoryGB) ==
    /\ requestedCores <= queue.maxCores
    /\ requestedMemoryGB <= queue.maxMemoryGB
    /\ queue.minMemoryGB # NoMinimum => requestedMemoryGB >= queue.minMemoryGB

\* the eligible subset of the table
EligibleQueues(requestedCores, requestedMemoryGB) ==
    {queue \in QueueSpecs : IsEligible(queue, requestedCores, requestedMemoryGB)}

\* the largest footprint requested
MaxRequestedCores == 9
MaxRequestedMemoryGB == 13

EligibilityCall ==
    /\ call = NoCall
    /\ \E requestedCores \in 1..MaxRequestedCores,
          requestedMemoryGB \in 1..MaxRequestedMemoryGB :
          Called([op |-> "EligibleQueues", requestedCores |-> requestedCores,
                  requestedMemoryGB |-> requestedMemoryGB],
                 EligibleQueues(requestedCores, requestedMemoryGB))

CallNext ==
    ParseMemoryCall \/ SafeIntCall \/ ColorCall \/ ParseOutputCall \/ EligibilityCall

CallSpec == CallInit /\ [][CallNext]_vars

(***************************************************************************)
(* Numeric normaliser: claims                                              *)
(***************************************************************************)

\* C11: parse_memory_value is total: whatever the text, also a unit suffix
\* after something that is no number ('abcmb', 'xb', '1tb'), it returns a
\* number and does not raise.
C11_ParseMemoryTotal ==
    call.op = "parse_memory_value" => ~result.raised

\* the factor from a magnitude in the unit to megabytes, as numerator and
\* denominator
UnitToMegabytes(unit) ==
    CASE unit = "tb" -> <<1048576, 1>>
      [] unit = "gb" -> <<1024, 1>>
      [] unit = "mb" -> <<1, 1>>
      [] unit = "kb" -> <<1, 1024>>
      [] unit \in {"b", ""} -> <<1, 1048576>>

\* C12: a positive magnitude x written with one of the units tb, gb, mb, kb,
\* b (any letter case, whitespace around it) parses to x scaled to megabytes:
\* tb * 1048576, gb * 1024, mb * 1, kb / 1024, b / 1048576; text without a
\* unit is bytes.
C12_UnitsConvertToMegabytes ==
    (call.op = "parse_memory_value" /\ call.written) =>
        /\ ~result.raised
        /\ result.value * UnitToMegabytes(call.unit)[2]
               = call.magnitude * UnitToMegabytes(call.unit)[1] * MB_BYTES

\* C13: safe_int_parse gives back the default for the empty text, whitespace,
\* '<various>' and any text that is not a whole number, and the number the
\* text writes otherwise.
C13_SafeIntParseDefaults ==
    call.op = "safe_int_parse" =>
        result = (IF call.written THEN call.number ELSE call.default)

C13_Witness ==
    /\ call.op = "safe_int_parse"
    /\ call.script = "clusterstats"
    /\ call.value = "8 cores"
    /\ call.default = 5
    /\ result = 5

(***************************************************************************)
(* Inventory parser: claims                                                *)
(***************************************************************************)

\* the records a document describes: one for each name line, holding the
\* attributes of the indented lines after it up to the next name line
RECURSIVE RecordsOf(_, _, _)
RecordsOf(document, i, records) ==
    IF i > Len(document) THEN records
    ELSE IF document[i].kind = "name"
    THEN RecordsOf(document, i + 1, Append(records, [k \in {"name"} |-> document[i].name]))
    ELSE IF document[i].kind = "attribute" /\ records # <<>>
    THEN RecordsOf(document, i + 1,
             [records EXCEPT ![Len(records)] =
                 dict_put(@, document[i].key, document[i].value)])
    ELSE RecordsOf(document, i + 1, records)

\* C16: parse_pbsnodes_output gives one record for each unindented line that
\* is not blank, in the order of the text, named by that line and holding
\* the key = value pairs of the indented lines after it; an indented line
\* never makes a record, and blank lines and lines without '=' are skipped.
C16_OneRecordPerNameLine ==
    call.op = "parse_pbsnodes_output" =>
        result = RecordsOf(call.document, 1, <<>>)

(***************************************************************************)
(* The process: claims                                                     *)
(***************************************************************************)

\* C14: when pbsnodes is missing or exits with a non-zero status the run
\* ends there: one line of explanation is all that is ever printed (no line
\* of the report before or after it), the exit status is not 0, pbsnodes
\* was started once, and nothing happens after the exit.
C14_FetchFailureIsTerminal ==
    [][/\ pc # "exited"
       /\ (PbsnodesFails \/ PbsnodesNotFound) =>
             /\ pc' = "exited"
             /\ exit_status' \in 1..255
             /\ invocations' = 1
             /\ Len(stdout') = 1
             /\ str_startswith(stdout'[1], "Error")]_vars

C14_Witness ==
    /\ pc = "exited"
    /\ exit_status = 1
    /\ invocations = 1
    /\ stdout = <<"Error: pbsnodes command not found. Make sure PBS Pro is installed and in PATH.">>

\* C15: the wait for pbsnodes is bounded: whenever the script waits for
\* pbsnodes, either pbsnodes returns or the script gives up and exits, so a
\* pbsnodes that never returns does not leave the script waiting for ever.
C15_AcquisitionTerminates ==
    (pc = "run_pbsnodes") ~> (pc \in {"loop", "exited"})

(***************************************************************************)
(* Report formatting: claims                                               *)
(***************************************************************************)

\* the report has been printed: the output begins with its title
ReportPrinted ==
    /\ pc = "exited"
    /\ stdout # <<>>
    /\ str_startswith(stdout[1], BOLD)

\* the resources of the report: the line of each, and what the pools hold
\* of it
ReportedFigures(st) ==
    <<[line |-> 4, assigned |-> Whole(st.compute.cores_assigned),
                   available |-> Whole(st.compute.cores_available)],
      [line |-> 5, assigned |-> Megabytes(st.compute.memory_assigned_mb),
                   available |-> Megabytes(st.compute.memory_available_mb)]>>
    \o (IF st.gpu.included_nodes > 0 \/ st.gpu.offline_nodes > 0
        THEN <<[line |-> 8, assigned |-> Whole(st.gpu.cpu_cores_assigned),
                            available |-> Whole(st.gpu.cpu_cores_available)],
               [line |-> 9, assigned |-> Whole(st.gpu.gpu_devices_assigned),
                            available |-> Whole(st.gpu.gpu_devices_available)],
               [line |-> 10, assigned |-> Megabytes(st.gpu.memory_assigned_mb),
                             available |-> Megabytes(st.gpu.memory_available_mb)]>>
        ELSE <<>>)

\* the line without the colour reset that may end it
Uncoloured(line) ==
    IF str_endswith(line, RESET) THEN str_drop_last(line, Len(RESET)) ELSE line

\* the figure of a line: the text between its last "(" and the closing "%)"
FigureText(line) ==
    LET parts == str_split(Uncoloured(line), "(")
    IN str_drop_last(parts[Len(parts)], 2)

\* the text is the decimal with one digit nearest to assigned / available * 100
IsNearestTenth(text, assigned, available) ==
    LET quotient == Ratio(assigned.num * available.den, assigned.den * available.num)
        tenths == FloatLiteralTimes(text, 10)
    IN /\ IsFloatLiteral(text)
       /\ 2 * Abs(tenths * quotient.den - 1000 * quotient.num) <= quotient.den

\* C17: in the printed report the figure of every resource is
\* assigned / available * 100 (to the one decimal printed) when available is
\* above 0, and the line reads "0 used / 0 total" with 0.0% when available is
\* 0, whatever is assigned; the report is never ended by a division by zero.
C17_UtilizationFigure ==
    ReportPrinted =>
        /\ exit_status = 0
        /\ \A i \in DOMAIN stdout : stdout[i] # "Error: division by zero"
        /\ \A k \in DOMAIN ReportedFigures(stats) :
              LET figure == ReportedFigures(stats)[k]
                  line == stdout[figure.line]
              IN /\ str_endswith(Uncoloured(line), "%)")
                 /\ figure.available.num = 0 =>
                        /\ str_contains(line, "0 used / 0 total")
                        /\ FigureText(line) = "0.0"
                 /\ figure.available.num > 0 =>
                        IsNearestTenth(FigureText(line), figure.assigned, figure.available)

\* a report of a general pool that has 3 cores assigned of 0 available, and
\* of an accelerator pool that has 1 of 2
C17_Witness ==
    /\ ReportPrinted
    /\ stats.compute.cores_assigned = 3
    /\ stats.compute.cores_available = 0
    /\ stdout[4] = "CPU:          0 used / 0 total cores (0.0%)"
    /\ stats.gpu.cpu_cores_assigned = 1
    /\ stats.gpu.cpu_cores_available = 2
    /\ stdout[8] = "CPU:          " \o YELLOW \o "1 used / 2 total cores (50.0%)" \o RESET

\* C18: the colour is decided by the percentage alone against 50 and 70:
\* below 50 green, from 50 to 70 inclusive yellow, above 70 red, and so
\* exactly one of the three for every percentage.
C18_TierByThresholds ==
    call.op = "get_color_for_utilization" =>
        LET p == call.percentage
        IN /\ p.num < 50 * p.den => result = GREEN
           /\ (p.num >= 50 * p.den /\ p.num <= 70 * p.den) => result = YELLOW
           /\ p.num > 70 * p.den => result = RED
           /\ Cardinality({GREEN, YELLOW, RED}) = 3

C18_Witness ==
    /\ call.op = "get_color_for_utilization"
    /\ call.percentage = [num |-> 70, den |-> 1]
    /\ result = YELLOW

(***************************************************************************)
(* Queue eligibility: claims                                               *)
(***************************************************************************)

\* C19: eligibility is monotone in the footprint: a queue that admits
\* (c, m) and has only maxima admits every (c', m') with 0 < c' <= c and
\* 0 < m' <= m; the queue with a minimum memory admits of these exactly
\* the ones with m' at or above its minimum.
C19_EligibilityMonotone ==
    call.op = "EligibleQueues" =>
        \A queue \in result :
            \A c \in 1..call.requestedCores, m \in 1..call.requestedMemoryGB :
                IF queue.minMemoryGB = NoMinimum
                THEN queue \in EligibleQueues(c, m)
                ELSE queue \in EligibleQueues(c, m) <=> m >= queue.minMemoryGB

\* a footprint at the limits of the largest regular queue, which the
\* high-memory queue admits too, being above its minimum
C19_Witness ==
    /\ call.op = "EligibleQueues"
    /\ call.requestedCores = 8
    /\ call.requestedMemoryGB = 8
    /\ {queue.name : queue \in result} = {"largeq", "bigmemq"}

(***************************************************************************)
(* Offline nodes: claims                                                   *)
(***************************************************************************)

\* the iteration just taken judged its node down or offline
OfflineIteration ==
    /\ idx' = idx + 1
    /\ reason' = "down_offline"

\* the pool the queue list speaks for: gpu with gpuq among the queues,
\* compute otherwise, an empty or missing list included
PoolOfQueues(node) ==
    IF "gpuq" \in NodeQueues(dict_get(node, "resources_available.Qlist", ""))
    THEN "gpu" ELSE "compute"

\* the pool the name speaks for in rescheck.py
PoolOfName(node) == IF NameHasG(node["name"]) THEN "gpu" ELSE "compute"

\* the stats with the node counted and one more offline node in the pool,
\* everything else as it was
OfflineCounted(st, pool) ==
    [st EXCEPT !.total_nodes = @ + 1, ![pool].offline_nodes = @ + 1]

\* C20 as stated: an iteration over a down or offline node adds one to the
\* offline counter of the pool its queue list speaks for, whatever its name
\* and kind, and changes nothing else of the stats but the count of nodes
\* seen.
C20_OfflineByQueues ==
    [][OfflineIteration =>
          stats' = OfflineCounted(stats, PoolOfQueues(nodes[idx + 1]))]_vars

\* C20 amended: so in clusterstats.py; in rescheck.py the pool is the one
\* the name speaks for (gpu when the name contains the letter g), whatever
\* the queues; in both nothing else of the stats changes.
C20_OfflineByVariant ==
    [][OfflineIteration =>
          stats' = OfflineCounted(stats,
                       IF variant = "clusterstats"
                       THEN PoolOfQueues(nodes[idx + 1])
                       ELSE PoolOfName(nodes[idx + 1]))]_vars

\* rescheck.py has counted an offline node named gpu01 that advertises
\* smallq alone in the gpu pool, and nothing else
C20_Witness ==
    /\ variant = "rescheck"
    /\ idx = 1
    /\ reason = "down_offline"
    /\ JudgedName = "gpu01"
    /\ JudgedQlist = "smallq"
    /\ stats = OfflineCounted(InitialStats, "gpu")

(***************************************************************************)
(* Node accounting: claims                                                 *)
(***************************************************************************)

\* the sum of the exclusion counts over the reasons
RECURSIVE ExcludedTotal(_, _)
ExcludedTotal(counts, reasons) ==
    IF reasons = {} THEN 0
    ELSE LET why == CHOOSE r \in reasons : TRUE
         IN counts[why] + ExcludedTotal(counts, reasons \ {why})

\* every node seen is in one of: included or offline in a pool, excluded
\* for a reason; and each reason's count is the length of its list of names
NodesPartitioned(st) ==
    /\ st.total_nodes = st.compute.included_nodes + st.gpu.included_nodes
                           + st.compute.offline_nodes + st.gpu.offline_nodes
                           + ExcludedTotal(st.excluded_counts, DOMAIN st.excluded_counts)
    /\ DOMAIN st.excluded_counts = DOMAIN st.excluded_nodes
    /\ \A why \in DOMAIN st.excluded_counts :
          st.excluded_counts[why] = Len(st.excluded_nodes[why])

\* the ledger after a step holds what it held before: no reason is lost, no
\* count goes down, and each list of names begins with the list it was
LedgerGrows ==
    \A why \in DOMAIN stats.excluded_nodes :
        /\ why \in DOMAIN stats'.excluded_nodes
        /\ excluded_count(stats', why) >= excluded_count(stats, why)
        /\ Len(stats'.excluded_nodes[why]) >= Len(stats.excluded_nodes[why])
        /\ SubSeq(stats'.excluded_nodes[why], 1, Len(stats.excluded_nodes[why]))
              = stats.excluded_nodes[why]

\* C21: after the loop has processed any prefix of the nodes, the nodes
\* seen are those of the prefix and total_nodes is the sum of the included
\* and offline counts of both pools and of the exclusion counts of all
\* reasons, each reason's count is the length of its list of names, and a
\* step of the loop only adds to the ledger.
C21_NodesPartitioned ==
    /\ [](pc \in {"loop", "done"} =>
             /\ stats.total_nodes = idx
             /\ NodesPartitioned(stats))
    /\ [][LedgerGrows]_vars

\* three nodes processed: one included, one offline, one excluded
C21_Witness ==
    /\ pc = "loop"
    /\ idx = 3
    /\ stats.total_nodes = 3
    /\ stats.compute.included_nodes + stats.gpu.included_nodes = 1
    /\ stats.compute.offline_nodes + stats.gpu.offline_nodes = 1
    /\ ExcludedTotal(stats.excluded_counts, DOMAIN stats.excluded_counts) = 1

(***************************************************************************)
(* Jobs: claims                                                            *)
(***************************************************************************)

\* an entry of a job list: the job, the cpu it holds on the node, and the
\* separator written after the entry
JobEntry(id, cpu, after) == [id |-> id, cpu |-> cpu, after |-> after]

\* the job lists the nodes of the inventories run
RunningJobs ==
    { <<>>,
      <<JobEntry("41.p", 0, ", "), JobEntry("41.p", 1, ", "), JobEntry("42.p", 0, "")>>,
      <<JobEntry("43.p", 0, "")>>,
      <<JobEntry("42.p", 1, ","), JobEntry("44.p", 0, "")>>,
      <<JobEntry("45.p", 0, "")>>,
      <<JobEntry("46.p", 0, "")>>,
      <<JobEntry("47.p", 0, "")>>,
      <<JobEntry("48.p", 0, "")>>,
      <<JobEntry("41.p", 2, ", "), JobEntry("42.p", 2, ","), JobEntry("42.p", 3, "")>> }

\* the jobs attribute pbsnodes writes for a job list
RECURSIVE WriteJobs(_)
WriteJobs(entries) ==
    IF entries = <<>> THEN ""
    ELSE Head(entries).id \o "/" \o ToString(Head(entries).cpu) \o Head(entries).after
             \o WriteJobs(Tail(entries))

\* the jobs of the list a jobs attribute was written from
JobsWritten(jobs_str) ==
    LET entries == CHOOSE running \in RunningJobs : WriteJobs(running) = jobs_str
    IN {entries[i].id : i \in DOMAIN entries}

\* the distinct jobs of the nodes of the inventory that are included in the
\* pool
JobsOfPool(pool) ==
    UNION {JobsWritten(dict_get(nodes[i], "jobs", "")) :
              i \in {j \in DOMAIN nodes : /\ ClassOf(nodes[j]).include
                                          /\ ClassOf(nodes[j]).node_type = pool}}

\* the line of the report on jobs for these numbers of jobs; the number of
\* the gpu pool is printed when it is not 0
JobsReported(compute_jobs, gpu_jobs) ==
    IF gpu_jobs > 0
    THEN "Jobs:         " \o ToString(compute_jobs) \o " running (compute), "
             \o ToString(gpu_jobs) \o " running (GPU)"
    ELSE "Jobs:         " \o ToString(compute_jobs) \o " running"

\* C22: when the report is printed each pool's job set is the set of the
\* jobs on the job lists of the nodes included in the pool, a job being what
\* stands before the "/" of an entry, so that a job with several entries on
\* a node or with entries on several nodes of the pool is in the set once;
\* and the report prints the size of each set.
C22_DistinctJobsPerPool ==
    ReportPrinted =>
        /\ stats.compute.unique_jobs = JobsOfPool("compute")
        /\ stats.gpu.unique_jobs = JobsOfPool("gpu")
        /\ \E i \in DOMAIN stdout :
              /\ stdout[i] = JobsReported(Cardinality(JobsOfPool("compute")),
                                          Cardinality(JobsOfPool("gpu")))
              /\ \A j \in DOMAIN stdout :
                    str_startswith(stdout[j], "Jobs:") => j = i

\* clusterstats.py has reported on node01 and node08, both in the compute
\* pool: five entries, two jobs
C22_Witness ==
    /\ ReportPrinted
    /\ variant = "clusterstats"
    /\ Len(nodes) = 2
    /\ nodes[1]["name"] = "node01"
    /\ nodes[2]["name"] = "node08"
    /\ stats.compute.included_nodes = 2
    /\ stats.compute.unique_jobs = {"41.p", "42.p"}
    /\ \E i \in DOMAIN stdout : stdout[i] = "Jobs:         2 running"

====
